---- MODULE Spec2Model ----
(***************************************************************************)
(* A model of the two Streamlit scripts of the SupplyKai assistant:        *)
(*   src/app.py     (v.05: Master CSV + Forecast Excel, seven queries)     *)
(*   src/app.py.py  (the first version: Forecast Excel, forecast_lookup)   *)
(* A text is a sequence of one-character strings; a table is a sequence of *)
(* headers and a sequence of rows of text cells (the empty text is a       *)
(* missing cell, pandas' NaN).  One run of a script is a sequence of steps *)
(* (pc); a change of a widget reruns the script from its first line.       *)
(***************************************************************************)
EXTENDS Integers, Sequences, FiniteSets, TLC

VARIABLES script, pc, uploaded_master, uploaded_forecast,
          df_master, df_forecast, msg, shown, invoked

vars == <<script, pc, uploaded_master, uploaded_forecast,
          df_master, df_forecast, msg, shown, invoked>>

(***************************************************************************)
(* Bounds of the model.                                                    *)
(***************************************************************************)
\* longest raw header drawn letter by letter for the header-variant uploads
MaxHeaderLen == 3

(***************************************************************************)
(* Texts.                                                                  *)
(***************************************************************************)
UpperCase == <<"A", "B", "C", "D", "E", "F", "G", "H", "I", "J", "K", "L", "M",
               "N", "O", "P", "Q", "R", "S", "T", "U", "V", "W", "X", "Y", "Z">>
LowerCase == <<"a", "b", "c", "d", "e", "f", "g", "h", "i", "j", "k", "l", "m",
               "n", "o", "p", "q", "r", "s", "t", "u", "v", "w", "x", "y", "z">>
Digits == <<"0", "1", "2", "3", "4", "5", "6", "7", "8", "9">>

Range(s) == {s[i] : i \in 1..Len(s)}

DigitSet == Range(Digits)
LowerAlnumSet == Range(LowerCase) \cup DigitSet
UpperSet == Range(UpperCase)
IsDigit(c) == c \in DigitSet
IsLowerAlnum(c) == c \in LowerAlnumSet

\* str.lower(), character by character
ToLower == [c \in UpperSet |-> LowerCase[CHOOSE i \in 1..26 : UpperCase[i] = c]]
LowerChar(c) == IF c \in UpperSet THEN ToLower[c] ELSE c
Lower(s) == [i \in 1..Len(s) |-> LowerChar(s[i])]

\* str.strip(chars); without an argument the characters are those of
\* str.isspace(): here the blank, the tab and the non-breaking space U+00A0
RECURSIVE LStrip(_, _)
LStrip(s, chars) ==
    IF s # <<>> /\ Head(s) \in chars THEN LStrip(Tail(s), chars) ELSE s
RECURSIVE RStrip(_, _)
RStrip(s, chars) ==
    IF s # <<>> /\ s[Len(s)] \in chars
    THEN RStrip(SubSeq(s, 1, Len(s) - 1), chars) ELSE s
WhiteSpace == {" ", "TAB", "NBSP"}
Strip(s) == RStrip(LStrip(s, WhiteSpace), WhiteSpace)
StripUnderscores(s) == RStrip(LStrip(s, {"_"}), {"_"})

\* str.replace(NBSP, " "): the non-breaking space becomes a blank
ReplaceNbsp(s) == [i \in 1..Len(s) |-> IF s[i] = "NBSP" THEN " " ELSE s[i]]

\* re.sub(r"[^a-z0-9]+", "_", s): every maximal run of other characters
\* becomes one underscore
RECURSIVE SubNonAlnum(_)
SubNonAlnum(s) ==
    IF s = <<>> THEN <<>>
    ELSE IF IsLowerAlnum(Head(s)) THEN <<Head(s)>> \o SubNonAlnum(Tail(s))
    ELSE IF Len(s) > 1 /\ ~IsLowerAlnum(s[2]) THEN SubNonAlnum(Tail(s))
    ELSE <<"_">> \o SubNonAlnum(Tail(s))

\* the body of the loop of canonicalize_columns, with the trailing
\* strip("_") moved before the substitution
CanonicalizeStripFirst(c) ==
    SubNonAlnum(StripUnderscores(Lower(ReplaceNbsp(Strip(c)))))

\* the body of the loop of canonicalize_columns: one header to its key
Canonicalize(c) ==
    StripUnderscores(SubNonAlnum(Lower(ReplaceNbsp(Strip(c)))))

(***************************************************************************)
(* Column keys and raw headers the scripts name.                           *)
(***************************************************************************)
style_collection == <<"s", "t", "y", "l", "e", "_", "c", "o", "l", "l", "e", "c", "t", "i", "o", "n">>
style_number == <<"s", "t", "y", "l", "e", "_", "n", "u", "m", "b", "e", "r">>
style == <<"s", "t", "y", "l", "e">>
description == <<"d", "e", "s", "c", "r", "i", "p", "t", "i", "o", "n">>
product_description == <<"p", "r", "o", "d", "u", "c", "t", "_", "d", "e", "s", "c", "r", "i", "p", "t", "i", "o", "n">>
color == <<"c", "o", "l", "o", "r">>
su26_m1 == <<"s", "u", "2", "6", "_", "m", "1">>
su26_m2 == <<"s", "u", "2", "6", "_", "m", "2">>
su26_m3 == <<"s", "u", "2", "6", "_", "m", "3">>
fal26_m1 == <<"f", "a", "l", "2", "6", "_", "m", "1">>
fal26_m2 == <<"f", "a", "l", "2", "6", "_", "m", "2">>
fal26_m3 == <<"f", "a", "l", "2", "6", "_", "m", "3">>
lab_dip_status == <<"l", "a", "b", "_", "d", "i", "p", "_", "s", "t", "a", "t", "u", "s">>
fabric == <<"f", "a", "b", "r", "i", "c">>
style_vendor == <<"s", "t", "y", "l", "e", "_", "v", "e", "n", "d", "o", "r">>
rm_shelf_life_end == <<"r", "m", "_", "s", "h", "e", "l", "f", "_", "l", "i", "f", "e", "_", "e", "n", "d">>
sustainability_flag == <<"s", "u", "s", "t", "a", "i", "n", "a", "b", "i", "l", "i", "t", "y", "_", "f", "l", "a", "g">>
category == <<"c", "a", "t", "e", "g", "o", "r", "y">>
compliance_flag == <<"c", "o", "m", "p", "l", "i", "a", "n", "c", "e", "_", "f", "l", "a", "g">>
notes == <<"n", "o", "t", "e", "s">>
\* the literal compared with in pending_lab_dips, and str(NaN)
pending == <<"p", "e", "n", "d", "i", "n", "g">>
nan == <<"n", "a", "n">>
\* the headers of src/app.py.py, which does not normalize
RawStyleCollection == <<"S", "t", "y", "l", "e", " ", "C", "o", "l", "l", "e", "c", "t", "i", "o", "n">>
RawSU26M1 == <<"S", "U", "2", "6", " ", "M", "1">>
RawSU26M2 == <<"S", "U", "2", "6", " ", "M", "2">>
RawSU26M3 == <<"S", "U", "2", "6", " ", "M", "3">>
RawFAL26M1 == <<"F", "A", "L", "2", "6", " ", "M", "1">>
RawFAL26M2 == <<"F", "A", "L", "2", "6", " ", "M", "2">>
RawFAL26M3 == <<"F", "A", "L", "2", "6", " ", "M", "3">>
\* the keys of month_column_map
April2026 == <<"A", "p", "r", "i", "l", " ", "2", "0", "2", "6">>
May2026 == <<"M", "a", "y", " ", "2", "0", "2", "6">>
June2026 == <<"J", "u", "n", "e", " ", "2", "0", "2", "6">>
July2026 == <<"J", "u", "l", "y", " ", "2", "0", "2", "6">>
August2026 == <<"A", "u", "g", "u", "s", "t", " ", "2", "0", "2", "6">>
September2026 == <<"S", "e", "p", "t", "e", "m", "b", "e", "r", " ", "2", "0", "2", "6">>

\* Python's None where a text is expected (dict.get on a missing key)
NoneText == <<"<None>">>

\* month_column_map of src/app.py: period text to normalized column key
month_column_map ==
    << <<April2026, su26_m1>>, <<May2026, su26_m2>>, <<June2026, su26_m3>>,
       <<July2026, fal26_m1>>, <<August2026, fal26_m2>>,
       <<September2026, fal26_m3>> >>

\* month_column_map local to forecast_lookup of src/app.py.py: raw headers
month_column_map_v1 ==
    << <<April2026, RawSU26M1>>, <<May2026, RawSU26M2>>, <<June2026, RawSU26M3>>,
       <<July2026, RawFAL26M1>>, <<August2026, RawFAL26M2>>,
       <<September2026, RawFAL26M3>> >>

\* dict.get(key): the value of the entry with exactly this key, else None
MapGet(map, key) ==
    IF \E i \in 1..Len(map) : map[i][1] = key
    THEN map[CHOOSE i \in 1..Len(map) : map[i][1] = key][2]
    ELSE NoneText

\* str(n) of a Python int
RECURSIVE NatToText(_)
NatToText(n) ==
    IF n < 10 THEN <<Digits[n + 1]>>
    ELSE NatToText(n \div 10) \o <<Digits[(n % 10) + 1]>>
IntToText(n) == IF n < 0 THEN <<"-">> \o NatToText(-n) ELSE NatToText(n)

\* the value of a text of decimal digits
ValueOfDigit == [c \in DigitSet |-> (CHOOSE i \in 1..10 : Digits[i] = c) - 1]
DigitValue(c) == ValueOfDigit[c]
RECURSIVE TextToNat(_)
TextToNat(s) ==
    IF s = <<>> THEN 0
    ELSE 10 * TextToNat(SubSeq(s, 1, Len(s) - 1)) + DigitValue(s[Len(s)])
AllDigits(s) == s # <<>> /\ \A i \in 1..Len(s) : IsDigit(s[i])

(***************************************************************************)
(* Values of the classifier's arguments (JSON): a string, an integer, or   *)
(* no entry under that name.                                               *)
(***************************************************************************)
Str(s) == [t |-> "str", s |-> s, n |-> 0]
Int_(n) == [t |-> "int", s |-> <<>>, n |-> n]
Absent == [t |-> "absent", s |-> <<>>, n |-> 0]

\* how an f-string and str() render a value
Fmt(v) == IF v.t = "int" THEN IntToText(v.n)
          ELSE IF v.t = "str" THEN v.s ELSE NoneText
\* bool(v): a parameter left at its default None is false
Truthy(v) == (v.t = "str" /\ v.s # <<>>) \/ (v.t = "int" /\ v.n # 0)

ArgNames == {"collection", "month", "year", "color", "style_number", "min_percent"}
\* f(**args): TypeError unless every required name and no other name is bound
Binds(args, required, allowed) ==
    /\ \A k \in required : args[k].t # "absent"
    /\ \A k \in ArgNames \ allowed : args[k].t = "absent"

(***************************************************************************)
(* Tables (pandas DataFrames): cols is the sequence of column labels,      *)
(* rows[i][j] the cell of row i under cols[j]; <<>> is a missing cell.     *)
(***************************************************************************)
RowIdx(df) == 1..Len(df.rows)
ColPos(df, key) == {j \in 1..Len(df.cols) : df.cols[j] = key}
\* key in df.columns
HasCol(df, key) == ColPos(df, key) # {}
\* df[key] is a Series only when one column carries the label; with several
\* it is a DataFrame, which has no .str and which to_numeric rejects
IsSeries(df, key) == Cardinality(ColPos(df, key)) = 1
Cell(df, i, key) == df.rows[i][CHOOSE j \in ColPos(df, key) : TRUE]

\* Series.astype(str): a missing cell becomes the text "nan"
AsStr(cell) == IF cell = <<>> THEN nan ELSE cell

\* pd.to_numeric(errors="coerce"): a text of digits is its number, any
\* other cell is NaN
ToNumeric(cell) == IF AllDigits(cell) THEN [nan |-> FALSE, v |-> TextToNat(cell)]
                   ELSE [nan |-> TRUE, v |-> 0]
\* Series.fillna(0)
FillNa0(x) == IF x.nan THEN 0 ELSE x.v
Quantity(df, i, col) == FillNa0(ToNumeric(Cell(df, i, col)))

\* Series.str.extract(r"(\d+)").astype(float): the first maximal run of
\* digits, NaN when the text has none
RECURSIVE TakeDigits(_)
TakeDigits(s) ==
    IF s # <<>> /\ IsDigit(Head(s)) THEN <<Head(s)>> \o TakeDigits(Tail(s)) ELSE <<>>
RECURSIVE DropNonDigits(_)
DropNonDigits(s) ==
    IF s # <<>> /\ ~IsDigit(Head(s)) THEN DropNonDigits(Tail(s)) ELSE s
ExtractNumber(s) == ToNumeric(TakeDigits(DropNonDigits(s)))

RECURSIVE SumOver(_, _)
SumOver(S, f) ==
    IF S = {} THEN 0
    ELSE LET i == CHOOSE x \in S : TRUE IN f[i] + SumOver(S \ {i}, f)

\* DataFrame.sort_values(ascending=False): every order of the items S with
\* non-increasing key q; quicksort leaves the order of equal keys open
RECURSIVE DescOrders(_, _)
DescOrders(S, q) ==
    IF S = {} THEN {<<>>}
    ELSE UNION {{<<i>> \o o : o \in DescOrders(S \ {i}, q)} :
                i \in {x \in S : \A y \in S : q[x] >= q[y]}}
\* DataFrame.head(k)
HeadN(o, k) == SubSeq(o, 1, IF Len(o) < k THEN Len(o) ELSE k)

(***************************************************************************)
(* What a query gives back: a DataFrame holding one Message, a DataFrame   *)
(* of data, app.py.py's sentence, or an exception leaving the function.    *)
(***************************************************************************)
Message(tag) == [kind |-> "message", tag |-> tag, rows |-> <<>>, total |-> 0, cols |-> <<>>]
Table(rows) == [kind |-> "table", tag |-> "", rows |-> rows, total |-> 0, cols |-> <<>>]
Total(n) == [kind |-> "total", tag |-> "", rows |-> <<>>, total |-> n, cols |-> <<>>]
Raise(exc) == [kind |-> "raise", tag |-> exc, rows |-> <<>>, total |-> 0, cols |-> <<>>]
NoResult == [kind |-> "none", tag |-> "", rows |-> <<>>, total |-> 0, cols |-> <<>>]

(***************************************************************************)
(* The forecast functions of src/app.py, over the global df_forecast.      *)
(***************************************************************************)
\* f"{month} {year}"
PeriodText(month, year) == Fmt(month) \o <<" ">> \o Fmt(year)

\* col = month_column_map.get(f"{month} {year}")
Resolve(month, year) == MapGet(month_column_map, PeriodText(month, year))

\* not col or col not in df_forecast.columns
Unresolved(df, col) == col = NoneText \/ ~HasCol(df, col)

\* df[df[coll_col].astype(str).str.lower().str.strip() == collection.lower().strip()]
ByCollection(df, collection) ==
    {i \in RowIdx(df) :
        Strip(Lower(AsStr(Cell(df, i, style_collection)))) = Strip(Lower(collection.s))}
\* filtered[filtered[color_col].astype(str).str.lower().str.strip() == color.lower().strip()]
ByColor(df, rows, c) ==
    {i \in rows : Strip(Lower(AsStr(Cell(df, i, color)))) = Strip(Lower(c.s))}
\* if color and color_col in df_forecast.columns
UsesColor(df, c) == Truthy(c) /\ HasCol(df, color)
Filtered(df, a) ==
    IF UsesColor(df, a.color)
    THEN ByColor(df, ByCollection(df, a.collection), a.color)
    ELSE ByCollection(df, a.collection)
\* the filter raises AttributeError: a label carried by two columns selects
\* a DataFrame (no .str), an argument that is no string has no .lower()
FilterRaises(df, a) ==
    \/ ~IsSeries(df, style_collection) \/ a.collection.t # "str"
    \/ UsesColor(df, a.color) /\ (~IsSeries(df, color) \/ a.color.t # "str")

list_available_collections(df) ==
    IF ~HasCol(df, style_collection) THEN Message("column_not_found")
    ELSE IF ~IsSeries(df, style_collection) THEN Raise("AttributeError")
    ELSE \* sorted(unique) is determined by the set of its entries
         Table({Strip(Cell(df, i, style_collection)) :
                  i \in {x \in RowIdx(df) : Cell(df, x, style_collection) # <<>>}})

forecast_lookup(df, a) ==
    LET col == Resolve(a.month, a.year)
        filtered == Filtered(df, a)
    IN
    IF ~HasCol(df, style_collection) THEN Message("column_not_found")
    ELSE IF Unresolved(df, col) THEN Message("no_period")
    ELSE IF FilterRaises(df, a) THEN Raise("AttributeError")
    ELSE IF filtered = {} THEN Message("no_data")
    ELSE IF ~IsSeries(df, col) THEN Raise("TypeError")
    ELSE Total(SumOver(filtered, [i \in filtered |-> Quantity(df, i, col)]))

\* "style_number" if "style_number" in df_forecast.columns else "style"
StyleCol(df) == IF HasCol(df, style_number) THEN style_number ELSE style
\* "description" if "description" in df_forecast.columns else "product_description"
DescCol(df) == IF HasCol(df, description) THEN description ELSE product_description

\* filtered[c] = pd.to_numeric(filtered[c], errors="coerce").fillna(0), were
\* filtered a view of df_forecast: the coerced cells land in the table
AssignCoercedInPlace(df, filtered, cs) ==
    [df EXCEPT !.rows =
        [i \in RowIdx(df) |->
            [j \in 1..Len(df.cols) |->
                IF i \in filtered /\ df.cols[j] \in cs
                THEN IntToText(FillNa0(ToNumeric(df.rows[i][j])))
                ELSE df.rows[i][j]]]]

\* filtered[c] = pd.to_numeric(filtered[c], errors="coerce").fillna(0) for
\* c in cs: filtered = df_forecast[mask] is a new frame (a boolean mask
\* always copies), so df_forecast keeps its cells
AssignCoerced(df, filtered, cs) == df

\* the rows top_3_styles returns: [idx, qty] in the order of the sort
TopRows(o, q) == [k \in 1..Len(o) |-> [idx |-> o[k], qty |-> q[o[k]]]]

\* top_3_styles: the set of its possible outcomes, each the value returned
\* (res) and df_forecast after the call (df)
top_3_styles(df, a) ==
    LET col == Resolve(a.month, a.year)
        filtered == Filtered(df, a)
        q == [i \in filtered |-> Quantity(df, i, col)]
        after == AssignCoerced(df, filtered, {col})
        here(r) == {[res |-> r, df |-> df]}
    IN
    \* for needed in [coll_col, style_col, desc_col, "color"]: color is exempt
    IF ~HasCol(df, style_collection) \/ ~HasCol(df, StyleCol(df)) \/ ~HasCol(df, DescCol(df))
    THEN here(Message("column_not_found"))
    ELSE IF Unresolved(df, col) THEN here(Message("no_period"))
    ELSE IF FilterRaises(df, a) THEN here(Raise("AttributeError"))
    ELSE IF filtered = {} THEN here(Message("no_data"))
    ELSE IF ~IsSeries(df, col) THEN here(Raise("TypeError"))
    \* top[[style_col, desc_col, color_col, col]]
    ELSE IF ~HasCol(df, color) THEN {[res |-> Raise("KeyError"), df |-> after]}
    ELSE {[res |-> Table(TopRows(HeadN(o, 3), q)), df |-> after] :
            o \in DescOrders(filtered, q)}

\* cols = [c for c in month_column_map.values() if c in df_forecast.columns]
MonthCols(df) ==
    {month_column_map[k][2] : k \in {x \in 1..Len(month_column_map) :
                                        HasCol(df, month_column_map[x][2])}}

\* color_performance_for_style: its possible outcomes, as for top_3_styles
color_performance_for_style(df, a) ==
    LET cs == MonthCols(df)
        filtered == {i \in RowIdx(df) :
                        Strip(AsStr(Cell(df, i, StyleCol(df)))) = Strip(Fmt(a.style_number))}
        after == AssignCoerced(df, filtered, cs)
        \* groupby(color_col) drops the rows whose color is missing
        groups == {Cell(df, i, color) : i \in filtered} \ {<<>>}
        rowTotal == [i \in filtered |-> SumOver(cs, [c \in cs |-> Quantity(df, i, c)])]
        total == [g \in groups |->
                    LET members == {i \in filtered : Cell(df, i, color) = g}
                    IN SumOver(members, [i \in members |-> rowTotal[i]])]
        here(r) == {[res |-> r, df |-> df]}
    IN
    IF cs = {} THEN here(Message("no_month_columns"))
    ELSE IF ~HasCol(df, StyleCol(df)) THEN here(Raise("KeyError"))
    ELSE IF ~IsSeries(df, StyleCol(df)) THEN here(Raise("AttributeError"))
    ELSE IF filtered = {} THEN here(Message("no_data"))
    ELSE IF \E c \in cs : ~IsSeries(df, c) THEN here(Raise("TypeError"))
    ELSE IF ~HasCol(df, color) THEN {[res |-> Raise("KeyError"), df |-> after]}
    ELSE IF ~IsSeries(df, color) THEN {[res |-> Raise("ValueError"), df |-> after]}
    ELSE {[res |-> Table([k \in 1..Len(o) |-> [color |-> o[k], total_units |-> total[o[k]]]]),
           df |-> after] : o \in DescOrders(groups, total)}

(***************************************************************************)
(* The master functions of src/app.py, over the global df_master.          *)
(***************************************************************************)
\* cols = [c for c in needed if c in df_master.columns]
Present(df, needed) == SelectSeq(needed, LAMBDA c : HasCol(df, c))
Rows(df, S, needed) == [kind |-> "table", tag |-> "", rows |-> S, total |-> 0,
                        cols |-> Present(df, needed)]

pending_lab_dips(df) ==
    LET hits == {i \in RowIdx(df) :
                    Strip(Lower(AsStr(Cell(df, i, lab_dip_status)))) = pending}
    IN
    IF ~HasCol(df, lab_dip_status) THEN Message("column_not_found")
    ELSE IF ~IsSeries(df, lab_dip_status) THEN Raise("AttributeError")
    ELSE IF hits = {} THEN Message("all_clear")
    ELSE Rows(df, hits, <<lab_dip_status, style, product_description, fabric, style_vendor>>)

\* pd.to_datetime(errors="coerce"): a date is held as its day number, written
\* in digits; any other cell is NaT
ToDatetime(cell) == ToNumeric(cell)
\* pd.Timedelta(days=30)
ExpiryWindow == 30

raw_material_expiry_risks(df, today) ==
    LET risks == {i \in RowIdx(df) :
                    LET d == ToDatetime(Cell(df, i, rm_shelf_life_end))
                    IN ~d.nan /\ d.v < today + ExpiryWindow}
    IN
    IF ~HasCol(df, rm_shelf_life_end) THEN Message("column_not_found")
    ELSE IF ~IsSeries(df, rm_shelf_life_end) THEN Raise("ValueError")
    ELSE IF risks = {} THEN Message("all_clear")
    ELSE Rows(df, risks, <<style, product_description, category, rm_shelf_life_end,
                           compliance_flag, notes>>)

\* the default of sustainable_fabrics(min_percent=50) and of args.get
DefaultMinPercent == 50

\* float(min_percent): a string must spell a number
FloatRaises(v) == v.t = "str" /\ ~AllDigits(v.s)
Float(v) == IF v.t = "int" THEN v.n ELSE TextToNat(v.s)

\* pct.fillna(0) >= float(min_percent)
SelectSustainable(pct, m) == FillNa0(pct) >= m

sustainable_fabrics(df, min_percent) ==
    LET hits == {i \in RowIdx(df) :
                    SelectSustainable(ExtractNumber(AsStr(Cell(df, i, sustainability_flag))),
                                      Float(min_percent))}
    IN
    IF ~HasCol(df, sustainability_flag) THEN Message("column_not_found")
    ELSE IF ~IsSeries(df, sustainability_flag) THEN Raise("AttributeError")
    ELSE IF FloatRaises(min_percent) THEN Raise("ValueError")
    ELSE IF hits = {} THEN Message("no_data")
    ELSE Rows(df, hits, <<style, product_description, fabric, sustainability_flag, style_vendor>>)

\* ensure_dataframe(obj, fallback_message): every function above returns a
\* DataFrame, which passes through
ensure_dataframe(obj, fallback) ==
    IF obj.kind \in {"message", "table", "total"} THEN obj ELSE Message(fallback)

(***************************************************************************)
(* forecast_lookup of src/app.py.py, over the global df with raw headers.  *)
(***************************************************************************)
forecast_lookup_v1(df, a) ==
    LET full_month == PeriodText(a.month, a.year)
        target_column == MapGet(month_column_map_v1, full_month)
        \* df["Style Collection"].str.strip().str.lower() == collection.lower();
        \* a missing cell stays NaN and equals nothing
        filtered == {i \in RowIdx(df) :
                        /\ Cell(df, i, RawStyleCollection) # <<>>
                        /\ Lower(Strip(Cell(df, i, RawStyleCollection))) = Lower(a.collection.s)}
    IN
    IF target_column = NoneText THEN Message("no_period")
    ELSE IF ~HasCol(df, RawStyleCollection) THEN Raise("KeyError")
    \* .str needs a column of strings: not one whose cells are all missing
    ELSE IF RowIdx(df) # {} /\ \A i \in RowIdx(df) : Cell(df, i, RawStyleCollection) = <<>>
    THEN Raise("AttributeError")
    ELSE IF a.collection.t # "str" THEN Raise("AttributeError")
    ELSE IF ~HasCol(df, target_column) THEN Raise("KeyError")
    \* Series.sum() skips missing cells; a text among the cells has no sum
    \* that f"{total:,}" can render
    ELSE IF \E i \in filtered : ~AllDigits(Cell(df, i, target_column))
                                 /\ Cell(df, i, target_column) # <<>>
    THEN Raise("TypeError")
    ELSE Total(SumOver(filtered, [i \in filtered |-> Quantity(df, i, target_column)]))

(***************************************************************************)
(* The uploads of the bounded sessions.                                    *)
(***************************************************************************)
\* rows of a table (at most), columns left out of it (at most)
MaxRows == 4
MaxDropped == 2

\* a forecast workbook: its header row and the rows it is filled from
ForecastHeaders ==
    << <<"S", "t", "y", "l", "e", " ", "C", "o", "l", "l", "e", "c", "t", "i", "o", "n">>,
       <<"S", "t", "y", "l", "e", " ", "N", "u", "m", "b", "e", "r">>,
       <<"S", "t", "y", "l", "e">>,
       <<"D", "e", "s", "c", "r", "i", "p", "t", "i", "o", "n">>,
       <<"P", "r", "o", "d", "u", "c", "t", " ", "D", "e", "s", "c", "r", "i", "p", "t", "i", "o", "n">>,
       <<"C", "o", "l", "o", "r">>,
       <<"S", "U", "2", "6", " ", "M", "1">>,
       <<"S", "U", "2", "6", " ", "M", "2">> >>
ForecastRowPool ==
    << <<<<"A">>, <<"S", "1">>, <<"S", "1">>, <<"d">>, <<"d">>, <<"R", "e", "d">>, <<"1", "0">>, <<"1">>>>,
       <<<<" ", "a">>, <<"S", "2">>, <<"S", "2">>, <<"d">>, <<"d">>, <<"R", "e", "d">>, <<"5">>, <<"n", "/", "a">>>>,
       <<<<"B">>, <<"S", "1">>, <<"S", "1">>, <<"d">>, <<"d">>, <<"B", "l", "u", "e">>, <<"1", "0", "0">>, <<>>>>,
       <<<<"A">>, <<"S", "3">>, <<"S", "3">>, <<"e">>, <<"e">>, <<"B", "l", "u", "e">>, <<"1", "0">>, <<"7">>>>,
       <<<<"a", " ">>, <<"S", "4">>, <<"S", "4">>, <<"e">>, <<"e">>, <<>>, <<"2", "0">>, <<"2">>>>,
       <<<<>>, <<"S", "2">>, <<"S", "2">>, <<"d">>, <<"d">>, <<"r", "e", "d">>, <<"3">>, <<"2">>>> >>
\* a master sheet likewise
MasterHeaders ==
    << <<"S", "t", "y", "l", "e">>,
       <<"P", "r", "o", "d", "u", "c", "t", " ", "D", "e", "s", "c", "r", "i", "p", "t", "i", "o", "n">>,
       <<"F", "a", "b", "r", "i", "c">>,
       <<"S", "t", "y", "l", "e", " ", "V", "e", "n", "d", "o", "r">>,
       <<"L", "a", "b", " ", "D", "i", "p", " ", "S", "t", "a", "t", "u", "s">>,
       <<"R", "M", " ", "S", "h", "e", "l", "f", " ", "L", "i", "f", "e", " ", "E", "n", "d">>,
       <<"S", "u", "s", "t", "a", "i", "n", "a", "b", "i", "l", "i", "t", "y", " ", "F", "l", "a", "g">> >>
MasterRowPool ==
    << <<<<"S", "1">>, <<"d">>, <<"f">>, <<"v">>, <<"P", "e", "n", "d", "i", "n", "g", " ">>, <<"3", "5">>, <<"6", "2", "%", " ", "r", "e", "c", "y", "c", "l", "e", "d">>>>,
       <<<<"S", "2">>, <<"d">>, <<"f">>, <<"v">>, <<"a", "p", "p", "r", "o", "v", "e", "d">>, <<"T", "B", "D">>, <<"N", "/", "A">>>>,
       <<<<"S", "3">>, <<"e">>, <<"f">>, <<"v">>, <<>>, <<"2", "0", "0">>, <<"3", "0">>>>,
       <<<<"S", "4">>, <<"e">>, <<"g">>, <<"w">>, <<"P", "E", "N", "D", "I", "N", "G">>, <<>>, <<>>>> >>

\* the characters the header variants are spelled with
HeaderAlphabet == {"a", "B", "_", "-", "NBSP"}
Headers == UNION {[1..n -> HeaderAlphabet] : n \in 1..MaxHeaderLen}

\* the subsequence of s at the positions in keep
RECURSIVE Sub(_, _, _)
Sub(s, keep, k) ==
    IF k > Len(s) THEN <<>>
    ELSE (IF k \in keep THEN <<s[k]>> ELSE <<>>) \o Sub(s, keep, k + 1)
Pick(s, keep) == Sub(s, keep, 1)

\* the sheet with the rows of pool at the positions rs, without the columns
\* at the positions drop
Sheet(headers, pool, rs, drop) ==
    LET keep == (1..Len(headers)) \ drop IN
    [cols |-> Pick(headers, keep),
     rows |-> [i \in 1..Cardinality(rs) |-> Pick(Pick(pool, rs)[i], keep)]]
\* a sheet with one more column
WithColumn(df, header, cell) ==
    [cols |-> Append(df.cols, header),
     rows |-> [i \in 1..Len(df.rows) |-> Append(df.rows[i], cell)]]

RowChoices(pool) == {rs \in SUBSET (1..Len(pool)) : Cardinality(rs) <= MaxRows}
DropChoices(headers) == {d \in SUBSET (1..Len(headers)) : Cardinality(d) <= MaxDropped}

BaseForecast == Sheet(ForecastHeaders, ForecastRowPool, {1, 2, 3}, {})
BaseMaster == Sheet(MasterHeaders, MasterRowPool, {1, 2, 3}, {})

ForecastSheets ==
    {Sheet(ForecastHeaders, ForecastRowPool, rs, {}) : rs \in RowChoices(ForecastRowPool)}
    \cup {Sheet(ForecastHeaders, ForecastRowPool, {1, 2, 3}, d) : d \in DropChoices(ForecastHeaders)}
    \cup {WithColumn(BaseForecast, style_collection, <<"B">>)}
MasterSheets ==
    {Sheet(MasterHeaders, MasterRowPool, rs, {}) : rs \in RowChoices(MasterRowPool)}
    \cup {Sheet(MasterHeaders, MasterRowPool, {1, 2, 3}, d) : d \in DropChoices(MasterHeaders)}
    \cup {WithColumn(BaseMaster, h, <<"x">>) : h \in Headers}

\* st.file_uploader gives None or the uploaded file; a file parses or not
NoTable == [cols |-> <<>>, rows |-> <<>>]
NoFile == [present |-> FALSE, readable |-> FALSE, table |-> NoTable]
File(df) == [present |-> TRUE, readable |-> TRUE, table |-> df]
Unreadable == [present |-> TRUE, readable |-> FALSE, table |-> NoTable]

\* the pairs of uploads of a session of app.py: one of the two files varies
UploadPairs ==
    {<<File(BaseMaster), File(f)>> : f \in ForecastSheets}
    \cup {<<File(m), File(BaseForecast)>> : m \in MasterSheets}
    \cup {<<m, f>> : m \in {NoFile, Unreadable, File(BaseMaster)},
                     f \in {NoFile, Unreadable, File(BaseForecast)}}
\* the upload of a session of app.py.py
UploadsV1 == {File(f) : f \in ForecastSheets} \cup {NoFile, Unreadable}

(***************************************************************************)
(* The classifier's replies of the bounded sessions.                       *)
(***************************************************************************)
NoArgs == [k \in ArgNames |-> Absent]
ForecastArgs(c, m, y, col) ==
    [NoArgs EXCEPT !.collection = c, !.month = m, !.year = y, !.color = col]

January == <<"J", "a", "n", "u", "a", "r", "y">>
April == <<"A", "p", "r", "i", "l">>
May == <<"M", "a", "y">>

\* (month, year) pairs: mapped, unmapped, and near misses of a mapped one
Periods ==
    { <<Str(April), Int_(2026)>>, <<Str(May), Int_(2026)>>,
      <<Str(January), Int_(2026)>>, <<Str(April), Int_(2025)>>,
      <<Str(<<"a", "p", "r", "i", "l">>), Int_(2026)>>, <<Str(<<" ", "A", "p", "r", "i", "l">>), Int_(2026)>>,
      <<Str(<<"A", "p", "r">>), Int_(2026)>> }
Collections == {Str(<<"A">>), Str(<<" ", "a", " ">>), Str(<<"Z">>)}
Colors == {Absent, Str(<<" ", "R", "E", "D", " ">>), Str(<<"B", "l", "u", "e">>)}

ForecastArgSets ==
    {ForecastArgs(Str(<<"A">>), p[1], p[2], Absent) : p \in Periods}
    \cup {ForecastArgs(c, Str(April), Int_(2026), col) : c \in Collections, col \in Colors}
    \cup {ForecastArgs(Str(<<"A">>), Str(May), Int_(2026), col) : col \in Colors}
\* arguments the schema rejects: a required one missing, one of the wrong
\* type, one the function does not take
BadForecastArgSets ==
    { ForecastArgs(Str(<<"A">>), Absent, Int_(2026), Absent),
      ForecastArgs(Int_(5), Str(April), Int_(2026), Absent),
      [ForecastArgs(Str(<<"A">>), Str(April), Int_(2026), Absent)
          EXCEPT !.min_percent = Int_(1)] }
StyleArgSets ==
    {[NoArgs EXCEPT !.style_number = s] :
        s \in {Str(<<"S", "1">>), Str(<<" ", "S", "2", " ">>), Str(<<"S", "9">>), Int_(1)}}
BadStyleArgSets == {NoArgs}
PercentArgSets ==
    {[NoArgs EXCEPT !.min_percent = m] :
        m \in {Absent, Int_(0), Int_(30), Int_(62), Int_(63)}}
BadPercentArgSets == {[NoArgs EXCEPT !.min_percent = Str(<<"a", "b", "c">>)]}

\* the names of the functions list
Catalogue == {"list_available_collections", "forecast_lookup", "top_3_styles",
              "color_performance_for_style", "pending_lab_dips",
              "raw_material_expiry_risks", "sustainable_fabrics"}

Call(name, args) == [kind |-> "call", name |-> name, args |-> args]
Replies ==
    {Call(n, a) : n \in {"forecast_lookup", "top_3_styles"},
                  a \in ForecastArgSets \cup BadForecastArgSets}
    \cup {Call("color_performance_for_style", a) : a \in StyleArgSets \cup BadStyleArgSets}
    \cup {Call("sustainable_fabrics", a) : a \in PercentArgSets \cup BadPercentArgSets}
    \cup {Call(n, NoArgs) : n \in {"list_available_collections", "pending_lab_dips",
                                    "raw_material_expiry_risks"}}
    \* a name outside the catalogue
    \cup {Call("total_forecast", ForecastArgs(Str(<<"A">>), Str(April), Int_(2026), Absent))}
    \* a reply in words, and a call whose arguments are not JSON
    \cup {[kind |-> "content", name |-> "", args |-> NoArgs],
          [kind |-> "bad_json", name |-> "forecast_lookup", args |-> NoArgs]}
\* the replies of a session of app.py.py, whose functions list names one
RepliesV1 ==
    {r \in Replies : r.kind # "call" \/ r.name \in {"forecast_lookup", "total_forecast"}}
NoReply == [kind |-> "none", name |-> "", args |-> NoArgs]

\* pd.Timestamp.today(), as a day number
Todays == {5, 6}

(***************************************************************************)
(* A session.  pc is the line the run of the script has reached; "done",   *)
(* "stopped" (st.stop()) and "crashed" (an exception nothing caught, which *)
(* Streamlit prints) end the run.                                          *)
(***************************************************************************)
Show(via, what) == [via |-> via, what |-> what]
Nothing == Show("none", NoResult)

\* canonicalize_columns: every label normalized, the cells as they were
canonicalize_columns(df) ==
    [cols |-> [j \in 1..Len(df.cols) |-> Canonicalize(df.cols[j])], rows |-> df.rows]

\* the pc after the failed read of an upload, were st.stop() missing
AfterReadErrorNoStop(next) == next

\* st.error(...); st.stop() of the two except clauses: the run ends
AfterReadError(next) == "stopped"

Init ==
    /\ script \in {"app.py", "app.py.py"}
    /\ \/ /\ script = "app.py"
          /\ \E p \in UploadPairs : uploaded_master = p[1] /\ uploaded_forecast = p[2]
          /\ pc = "line60"
       \/ /\ script = "app.py.py"
          /\ uploaded_master = NoFile
          /\ uploaded_forecast \in UploadsV1
          /\ pc = "v1_line16"
    /\ df_master = NoTable
    /\ df_forecast = NoTable
    /\ msg = NoReply
    /\ shown = Nothing
    /\ invoked = "none"

Uploads == <<script, uploaded_master, uploaded_forecast>>
Frames == <<df_master, df_forecast>>

\* the run ends at pc p showing s
End(p, s) ==
    /\ pc' = p
    /\ shown' = s

(*------------------------------ src/app.py ------------------------------*)
\* line 60: pd.read_csv(uploaded_master, sep=None, engine="python"), before
\* the check of line 63 and outside any try
SniffMaster ==
    /\ pc = "line60"
    /\ IF uploaded_master.present /\ uploaded_master.readable
       THEN pc' = "line63" /\ UNCHANGED shown
       ELSE End("crashed", Show("traceback", Raise("read_csv")))
    /\ UNCHANGED <<Uploads, Frames, msg, invoked>>

\* lines 63-65
CheckUploads ==
    /\ pc = "line63"
    /\ IF ~uploaded_master.present \/ ~uploaded_forecast.present
       THEN End("stopped", Show("warning", Message("upload_missing")))
       ELSE pc' = "line68" /\ UNCHANGED shown
    /\ UNCHANGED <<Uploads, Frames, msg, invoked>>

\* lines 68-73.  The upload was read through once at line 60; whether this
\* second read starts over is the stream's affair, so it may parse or raise.
ReadMaster ==
    /\ pc = "line68"
    /\ \E parses \in BOOLEAN :
          IF parses /\ uploaded_master.readable
          THEN /\ df_master' = canonicalize_columns(uploaded_master.table)
               /\ pc' = "line75"
               /\ UNCHANGED shown
          ELSE /\ End(AfterReadError("line75"), Show("error", Message("read_error")))
               /\ UNCHANGED df_master
    /\ UNCHANGED <<Uploads, df_forecast, msg, invoked>>

\* lines 75-80
ReadForecast ==
    /\ pc = "line75"
    /\ IF uploaded_forecast.readable
       THEN /\ df_forecast' = canonicalize_columns(uploaded_forecast.table)
            /\ pc' = "line243"
            /\ UNCHANGED shown
       ELSE /\ End(AfterReadError("line243"), Show("error", Message("read_error")))
            /\ UNCHANGED df_forecast
    /\ UNCHANGED <<Uploads, df_master, msg, invoked>>

\* line 245: the question box is empty
NoQuestion ==
    /\ pc = "line243"
    /\ End("done", Nothing)
    /\ UNCHANGED <<Uploads, Frames, msg, invoked>>

\* lines 248-255: the classifier answers
Classify ==
    /\ pc = "line243"
    /\ msg' \in Replies
    /\ pc' = "line256"
    /\ UNCHANGED <<Uploads, Frames, shown, invoked>>

\* lines 248-253 raise (the service is down); lines 278-279 catch it
ClassifierFails ==
    /\ pc = "line243"
    /\ End("done", Show("error", Raise("openai")))
    /\ UNCHANGED <<Uploads, Frames, msg, invoked>>

\* lines 276-277
ShowContent ==
    /\ pc = "line256"
    /\ msg.kind = "content"
    /\ End("done", Show("success", Message("content")))
    /\ UNCHANGED <<Uploads, Frames, msg, invoked>>

\* line 258: json.loads raises; lines 278-279 catch it
BadJson ==
    /\ pc = "line256"
    /\ msg.kind = "bad_json"
    /\ End("done", Show("error", Raise("JSONDecodeError")))
    /\ UNCHANGED <<Uploads, Frames, msg, invoked>>

\* st.dataframe(ensure_dataframe(...)) inside try, st.error in the except
\* clause of lines 278-279
ShowResult(res, fallback) ==
    IF res.kind = "raise" THEN Show("error", res)
    ELSE Show("dataframe", ensure_dataframe(res, fallback))

Case(name) == pc = "line256" /\ msg.kind = "call" /\ msg.name = name

\* lines 261-262
DispatchListCollections ==
    /\ Case("list_available_collections")
    /\ invoked' = "list_available_collections"
    /\ End("done", ShowResult(list_available_collections(df_forecast), "no_collections"))
    /\ UNCHANGED <<Uploads, Frames, msg>>

\* lines 263-264: forecast_lookup(**args)
DispatchForecastLookup ==
    /\ Case("forecast_lookup")
    /\ IF Binds(msg.args, {"collection", "month", "year"},
                {"collection", "month", "year", "color"})
       THEN /\ invoked' = "forecast_lookup"
            /\ End("done", ShowResult(forecast_lookup(df_forecast, msg.args), "no_forecast"))
       ELSE /\ UNCHANGED invoked
            /\ End("done", Show("error", Raise("TypeError")))
    /\ UNCHANGED <<Uploads, Frames, msg>>

\* lines 265-266: top_3_styles(**args)
DispatchTop3Styles ==
    /\ Case("top_3_styles")
    /\ IF Binds(msg.args, {"collection", "month", "year"},
                {"collection", "month", "year", "color"})
       THEN /\ invoked' = "top_3_styles"
            /\ \E r \in top_3_styles(df_forecast, msg.args) :
                  /\ End("done", ShowResult(r.res, "no_styles"))
                  /\ df_forecast' = r.df
       ELSE /\ UNCHANGED <<invoked, df_forecast>>
            /\ End("done", Show("error", Raise("TypeError")))
    /\ UNCHANGED <<Uploads, df_master, msg>>

\* lines 267-268: color_performance_for_style(**args)
DispatchColorPerformance ==
    /\ Case("color_performance_for_style")
    /\ IF Binds(msg.args, {"style_number"}, {"style_number"})
       THEN /\ invoked' = "color_performance_for_style"
            /\ \E r \in color_performance_for_style(df_forecast, msg.args) :
                  /\ End("done", ShowResult(r.res, "no_color_performance"))
                  /\ df_forecast' = r.df
       ELSE /\ UNCHANGED <<invoked, df_forecast>>
            /\ End("done", Show("error", Raise("TypeError")))
    /\ UNCHANGED <<Uploads, df_master, msg>>

\* lines 269-270
DispatchPendingLabDips ==
    /\ Case("pending_lab_dips")
    /\ invoked' = "pending_lab_dips"
    /\ End("done", ShowResult(pending_lab_dips(df_master), "no_pending"))
    /\ UNCHANGED <<Uploads, Frames, msg>>

\* lines 271-272
DispatchExpiryRisks ==
    /\ Case("raw_material_expiry_risks")
    /\ invoked' = "raw_material_expiry_risks"
    /\ \E today \in Todays :
          End("done", ShowResult(raw_material_expiry_risks(df_master, today), "no_risks"))
    /\ UNCHANGED <<Uploads, Frames, msg>>

\* lines 273-275: min_percent = args.get("min_percent", 50)
DispatchSustainableFabrics ==
    /\ Case("sustainable_fabrics")
    /\ invoked' = "sustainable_fabrics"
    /\ LET min_percent == IF msg.args.min_percent.t = "absent"
                          THEN Int_(DefaultMinPercent) ELSE msg.args.min_percent
       IN End("done", ShowResult(sustainable_fabrics(df_master, min_percent), "no_fabrics"))
    /\ UNCHANGED <<Uploads, Frames, msg>>

\* lines 260-275: the match statement has no case for any other name
NoCaseMatches ==
    /\ pc = "line256"
    /\ msg.kind = "call"
    /\ msg.name \notin Catalogue
    /\ End("done", Nothing)
    /\ UNCHANGED <<Uploads, Frames, msg, invoked>>

(*----------------------------- src/app.py.py ----------------------------*)
\* lines 14-18
V1CheckUpload ==
    /\ pc = "v1_line16"
    /\ IF ~uploaded_forecast.present
       THEN End("stopped", Show("warning", Message("upload_missing")))
       ELSE pc' = "v1_line21" /\ UNCHANGED shown
    /\ UNCHANGED <<Uploads, Frames, msg, invoked>>

\* line 21: df = pd.read_excel(uploaded_file), outside any try
V1Read ==
    /\ pc = "v1_line21"
    /\ IF uploaded_forecast.readable
       THEN /\ df_forecast' = uploaded_forecast.table
            /\ pc' = "v1_line76"
            /\ UNCHANGED shown
       ELSE /\ End("crashed", Show("traceback", Raise("read_excel")))
            /\ UNCHANGED df_forecast
    /\ UNCHANGED <<Uploads, df_master, msg, invoked>>

\* line 76: the question box is empty
V1NoQuestion ==
    /\ pc = "v1_line76"
    /\ End("done", Nothing)
    /\ UNCHANGED <<Uploads, Frames, msg, invoked>>

\* lines 78-85
V1Classify ==
    /\ pc = "v1_line76"
    /\ msg' \in RepliesV1
    /\ pc' = "v1_line87"
    /\ UNCHANGED <<Uploads, Frames, shown, invoked>>

\* lines 78-83 raise; nothing catches
V1ClassifierFails ==
    /\ pc = "v1_line76"
    /\ End("crashed", Show("traceback", Raise("openai")))
    /\ UNCHANGED <<Uploads, Frames, msg, invoked>>

\* lines 87-93: whatever function the reply names, forecast_lookup(**args)
V1Dispatch ==
    /\ pc = "v1_line87"
    /\ IF msg.kind = "content"
       THEN End("done", Show("success", Message("content"))) /\ UNCHANGED invoked
       ELSE IF msg.kind = "bad_json"
       THEN End("crashed", Show("traceback", Raise("JSONDecodeError"))) /\ UNCHANGED invoked
       ELSE IF ~Binds(msg.args, {"collection", "month", "year"},
                      {"collection", "month", "year"})
       THEN End("crashed", Show("traceback", Raise("TypeError"))) /\ UNCHANGED invoked
       ELSE LET answer == forecast_lookup_v1(df_forecast, msg.args) IN
            /\ invoked' = "forecast_lookup"
            /\ IF answer.kind = "raise"
               THEN End("crashed", Show("traceback", answer))
               ELSE End("done", Show("success", answer))
    /\ UNCHANGED <<Uploads, Frames, msg>>

(*------------------------------- both scripts ---------------------------*)
\* a widget changes: Streamlit runs the script again from its first line,
\* in a fresh namespace, with the uploads it holds
Rerun ==
    /\ pc \in {"done", "stopped", "crashed"}
    /\ pc' = IF script = "app.py" THEN "line60" ELSE "v1_line16"
    /\ df_master' = NoTable
    /\ df_forecast' = NoTable
    /\ msg' = NoReply
    /\ shown' = Nothing
    /\ invoked' = "none"
    /\ UNCHANGED Uploads

Next ==
    \/ SniffMaster \/ CheckUploads \/ ReadMaster \/ ReadForecast
    \/ NoQuestion \/ Classify \/ ClassifierFails \/ ShowContent \/ BadJson
    \/ DispatchListCollections \/ DispatchForecastLookup \/ DispatchTop3Styles
    \/ DispatchColorPerformance \/ DispatchPendingLabDips \/ DispatchExpiryRisks
    \/ DispatchSustainableFabrics \/ NoCaseMatches
    \/ V1CheckUpload \/ V1Read \/ V1NoQuestion \/ V1Classify \/ V1ClassifierFails
    \/ V1Dispatch
    \/ Rerun

Spec == Init /\ [][Next]_vars

(***************************************************************************)
(* Vocabulary of the properties.                                           *)
(***************************************************************************)
Ended == {"done", "stopped", "crashed"}
IsApp == script = "app.py"

\* every upload the script needs is there and parses
FilesOK ==
    /\ uploaded_forecast.present /\ uploaded_forecast.readable
    /\ IsApp => uploaded_master.present /\ uploaded_master.readable
\* the tables as ingestion leaves them
LoadedForecast ==
    IF IsApp THEN canonicalize_columns(uploaded_forecast.table)
    ELSE uploaded_forecast.table
LoadedMaster == IF IsApp THEN canonicalize_columns(uploaded_master.table) ELSE NoTable

\* the parameter schemas of the functions lists (app.py 233-239, app.py.py 46-69)
ArgsFitSchema(name, a) ==
    LET none(ks) == \A k \in ks : a[k].t = "absent" IN
    IF name \in {"forecast_lookup", "top_3_styles"}
    THEN /\ a.collection.t = "str" /\ a.month.t = "str" /\ a.year.t = "int"
         /\ a.color.t \in (IF IsApp THEN {"absent", "str"} ELSE {"absent"})
         /\ none({"style_number", "min_percent"})
    ELSE IF name = "color_performance_for_style"
    THEN a.style_number.t = "str" /\ none(ArgNames \ {"style_number"})
    ELSE IF name = "sustainable_fabrics"
    THEN a.min_percent.t \in {"absent", "int"} /\ none(ArgNames \ {"min_percent"})
    ELSE none(ArgNames)
CatalogueOf == IF IsApp THEN Catalogue ELSE {"forecast_lookup"}
\* the reply names a function of the catalogue with arguments of its schema
ValidCall == msg.kind = "call" /\ msg.name \in CatalogueOf /\ ArgsFitSchema(msg.name, msg.args)
\* a query function ran on a valid call and the run is over
Answered(name) == pc \in Ended /\ invoked = name /\ ValidCall /\ msg.name = name

\* equal ignoring case and surrounding whitespace
SameText(x, y) == Strip(Lower(x)) = Strip(Lower(y))
CollectionKey == IF IsApp THEN style_collection ELSE RawStyleCollection
\* the rows of the collection asked for (and of the color, when one is given)
Matching ==
    {i \in RowIdx(df_forecast) :
        /\ HasCol(df_forecast, CollectionKey)
        /\ Cell(df_forecast, i, CollectionKey) # <<>>
        /\ SameText(Cell(df_forecast, i, CollectionKey), msg.args.collection.s)
        /\ msg.args.color.t = "str" =>
              /\ HasCol(df_forecast, color)
              /\ SameText(Cell(df_forecast, i, color), msg.args.color.s)}

June == <<"J", "u", "n", "e">>
July == <<"J", "u", "l", "y">>
August == <<"A", "u", "g", "u", "s", "t">>
September == <<"S", "e", "p", "t", "e", "m", "b", "e", "r">>
\* the calendar of the six periods, in the order of the maps
SixMonths == <<April, May, June, July, August, September>>
PeriodMap == IF IsApp THEN month_column_map ELSE month_column_map_v1
InCalendar ==
    /\ msg.args.month.t = "str" /\ msg.args.year = Int_(2026)
    /\ \E k \in 1..6 : SixMonths[k] = msg.args.month.s
\* the column of the period asked for, when it is in the calendar
PeriodColumn == PeriodMap[CHOOSE k \in 1..6 : SixMonths[k] = msg.args.month.s][2]
PeriodResolves == InCalendar /\ HasCol(df_forecast, PeriodColumn)
QuantityOf(i) == Quantity(df_forecast, i, PeriodColumn)

(***************************************************************************)
(* The properties.                                                         *)
(***************************************************************************)
\* C1: sustainable_fabrics(min_percent) returns a Master row only if its
\* sustainability_flag text holds a number and that number is >= min_percent;
\* a row without digits ("N/A", an empty cell) is returned for no threshold,
\* 0 included.
C1_UnparseableExcluded ==
    Answered("sustainable_fabrics") /\ shown.what.kind = "table" =>
        LET m == IF msg.args.min_percent.t = "absent" THEN DefaultMinPercent
                 ELSE msg.args.min_percent.n
        IN \A i \in shown.what.rows :
              LET pct == ExtractNumber(Cell(df_master, i, sustainability_flag))
              IN ~pct.nan /\ pct.v >= m

\* the columns a query function reads from its table
Reads(name) ==
    IF ~IsApp THEN {RawStyleCollection} \cup (IF InCalendar THEN {PeriodColumn} ELSE {})
    ELSE IF name = "list_available_collections" THEN {style_collection}
    ELSE IF name = "forecast_lookup"
    THEN {style_collection} \cup (IF InCalendar THEN {PeriodColumn} ELSE {})
    ELSE IF name = "top_3_styles"
    THEN {style_collection, StyleCol(df_forecast), DescCol(df_forecast), color}
         \cup (IF InCalendar THEN {PeriodColumn} ELSE {})
    ELSE IF name = "color_performance_for_style" THEN {StyleCol(df_forecast), color}
    ELSE IF name = "pending_lab_dips" THEN {lab_dip_status}
    ELSE IF name = "raw_material_expiry_risks" THEN {rm_shelf_life_end}
    ELSE {sustainability_flag}
TableOf(name) ==
    IF name \in {"pending_lab_dips", "raw_material_expiry_risks", "sustainable_fabrics"}
    THEN df_master ELSE df_forecast

\* C2: a query function called on a table that lacks a column it reads
\* returns a "column not found" outcome (a Message naming the missing column
\* or period column) and raises nothing.
C2_MissingColumnReported ==
    \A name \in Catalogue :
        (Answered(name) /\ \E c \in Reads(name) : ~HasCol(TableOf(name), c)) =>
            /\ shown.what.kind = "message"
            /\ shown.what.tag \in {"column_not_found", "no_period", "no_month_columns"}

\* C3: when the reply names a function outside the catalogue, or a call
\* whose required arguments are missing or of the wrong type, the run ends
\* with an error reported to the user (no crash, not nothing) and no query
\* function has been entered.
C3_DispatchErrorReported ==
    (pc \in Ended /\ msg.kind = "call" /\ ~ValidCall) =>
        shown.via = "error" /\ invoked = "none"

\* C4: the classifier is asked and a query runs only after every upload the
\* script needs has been read (and, in app.py, normalized) in full; with a
\* file missing or unreadable the run ends reporting the failure, having
\* asked nothing and run no query.
C4_QueryOnlyAfterIngestion ==
    /\ (msg # NoReply \/ invoked # "none") => FilesOK
    /\ pc \in {"line256", "v1_line87"} =>
          df_forecast = LoadedForecast /\ df_master = LoadedMaster
    /\ (~FilesOK /\ pc \in Ended) =>
          /\ pc \in {"stopped", "crashed"}
          /\ shown.via \in {"warning", "error", "traceback"}
\* a run of app.py that stopped on an unreadable forecast workbook
C4_Witness ==
    /\ IsApp /\ uploaded_forecast = Unreadable
    /\ pc = "stopped" /\ shown = Show("error", Message("read_error"))

\* C5: forecast_lookup returns as its total the sum of the period column
\* over the rows of the collection (and color), compared ignoring case and
\* surrounding whitespace, and a NotFound outcome, never a total, when no
\* row matches or the period does not resolve.
C5_LookupTotal ==
    Answered("forecast_lookup") =>
        IF PeriodResolves /\ Matching # {}
        THEN shown.what = Total(SumOver(Matching, [i \in Matching |-> QuantityOf(i)]))
        ELSE shown.what.kind = "message"

\* C6: the period resolves by exact lookup: the six months of the calendar
\* have six distinct columns, a period of the calendar whose column is in
\* the table is not reported as unknown, and every other period, as well as
\* a period whose column the table lacks, yields a NotFound outcome, not a
\* total and not an exception.
C6_PeriodResolution ==
    /\ \A j, k \in 1..6 : PeriodMap[j][1] = SixMonths[j] \o <<" ", "2", "0", "2", "6">>
                          /\ (j # k => PeriodMap[j][2] # PeriodMap[k][2])
    /\ Answered("forecast_lookup") =>
          IF PeriodResolves THEN shown.what.tag # "no_period"
          ELSE shown.what.kind = "message"

\* C7: no query function changes the loaded tables: when a query has run,
\* whatever it returned or raised, df_forecast and df_master are the tables
\* ingestion built.
C7_DatasetUnchanged ==
    (pc \in Ended /\ invoked # "none") =>
        df_forecast = LoadedForecast /\ df_master = LoadedMaster
\* top_3_styles returned rows whose period cell was no number: the coerced
\* column it assigned differs from the one in the table
C7_Witness ==
    /\ pc = "done" /\ invoked = "top_3_styles" /\ shown.what.kind = "table"
    /\ \E k \in 1..Len(shown.what.rows) :
          ~AllDigits(Cell(df_forecast, shown.what.rows[k].idx, PeriodColumn))

\* C8: normalization is idempotent: normalizing a column key that
\* canonicalize_columns produced gives that key again.
C8_NormalizeIdempotent ==
    (IsApp /\ pc \in {"line75", "line243"}) =>
        \A df \in {df_master, df_forecast} :
            \A j \in 1..Len(df.cols) : Canonicalize(df.cols[j]) = df.cols[j]
\* a master sheet was normalized whose last header had a non-breaking space,
\* capitals or punctuation at its ends
C8_Witness ==
    /\ IsApp /\ pc = "line75"
    /\ LET raw == uploaded_master.table.cols[Len(uploaded_master.table.cols)]
           key == df_master.cols[Len(df_master.cols)]
       IN raw[1] \in {"NBSP", "-", "_"} /\ raw[Len(raw)] = "B" /\ key = <<"b">>

\* C9: a table in which two headers normalize to the same key is refused at
\* ingestion: no loaded table carries one key on two columns.
C9_DuplicateKeysRejected ==
    \A df \in {df_master, df_forecast} :
        \A j, k \in 1..Len(df.cols) : j # k => df.cols[j] # df.cols[k]

\* C10: with the period resolved and k >= 1 rows of the collection (and
\* color), top_3_styles returns min(3, k) of those rows, each once, in
\* descending order of the period's quantity, none left out that has a
\* larger quantity than one returned.
C10_Top3 ==
    (Answered("top_3_styles") /\ PeriodResolves /\ Matching # {}
     /\ \A c \in {style_collection, StyleCol(df_forecast), DescCol(df_forecast)} :
           HasCol(df_forecast, c)) =>
        /\ shown.what.kind = "table"
        /\ LET rows == shown.what.rows
               k == Cardinality(Matching)
               returned == {rows[n].idx : n \in 1..Len(rows)}
           IN /\ Len(rows) = IF k < 3 THEN k ELSE 3
              /\ Cardinality(returned) = Len(rows)
              /\ returned \subseteq Matching
              /\ \A n \in 1..Len(rows) : rows[n].qty = QuantityOf(rows[n].idx)
              /\ \A n \in 1..(Len(rows) - 1) : rows[n].qty >= rows[n + 1].qty
              /\ \A i \in Matching \ returned : \A j \in returned :
                    QuantityOf(i) <= QuantityOf(j)

====
